---- MODULE Spec2Model ----
(***************************************************************************)
(* Round-resolution state machine of Space Werewolf (5-player version),   *)
(* src/space_werewolf_5p_deepseek.py: role assignment, the report,        *)
(* defense and vote phases of SpaceWerewolfGame.run, check_victory and    *)
(* the forced decision after the round loop.                              *)
(*                                                                         *)
(* Texts (reports, defenses) are opaque tokens.  Suspicion scores are     *)
(* hundredths (0.5 is 50).  Every draw of the process-global random       *)
(* generator and every answer of the live analyzer is a nondeterministic  *)
(* choice.                                                                 *)
(***************************************************************************)
EXTENDS Integers, Sequences, FiniteSets, TLC

(* ---------------- GameConfig (lines 78-90) ---------------- *)
TOTAL_PLAYERS == 5
ROUNDS_PER_VOTE == 2
\* faulty cap: the loop runs one round more
VoteRoundsOneMore == 2 + 1
VOTE_ROUNDS == 2
DEFAULT_SCORE == 50
SPEECH_LENGTH_MIN == 12
SPEECH_LENGTH_MAX == 22
DEBATE_LENGTH_MIN == 25
DEBATE_LENGTH_MAX == 45

(* ---------------- bounds of the model ---------------- *)
\* voters that take the 5% random-vote branch in one vote phase
MaxRandomVotes == 1

\* representative scores, inside the heuristic's ranges of both factions
ScoreGrid == {40, 60}

Ids == 1..TOTAL_PLAYERS
\* a key the live analyzer may return that is no player id
JunkId == TOTAL_PLAYERS + 1

VARIABLES
    player_ids,          \* self.player_ids after random.shuffle
    imposter_ids,        \* self.imposter_ids
    crewmate_ids,        \* self.crewmate_ids
    role_mapping,        \* self.role_mapping
    mock_mode,           \* self.client.mock_mode (available = ~mock_mode)
    all_reports,         \* self.all_reports (= players[pid].speeches)
    all_defenses,        \* self.all_defenses (= players[pid].debate)
    eliminated_players,  \* self.eliminated_players
    pc,                  \* position in run()
    vote_round,          \* loop variable of run()
    round_num,           \* loop variable of run_report_rounds()
    turn,                \* index into sorted(active_players)
    suspect_target,      \* initial_suspect[pid] of the player defending
    suspect_scores,      \* run_voting_phase: suspect_scores, in dict order
    sorted_suspect,      \* run_voting_phase: sorted_suspect
    votes,               \* run_voting_phase: votes
    random_voters,       \* voters whose draw fell below RANDOM_VOTE_RATE
    vote_tally,          \* run_voting_phase: vote_tally
    accused_pid,         \* run(): accused_pid of this iteration (0: none)
    accused_log,         \* history: accused_pid of every completed vote phase
    victory_msg,         \* run(): victory_msg ("" until assigned)
    game_ended,          \* run(): game_ended
    forced,              \* history: the block under "if not game_ended" ran
    runtime_error,       \* run(): the except clause was taken
    analysis,            \* analyze_suspect: the path taken and the mapping returned
    generation           \* the generate_speech / generate_debate call followed

vars == <<player_ids, imposter_ids, crewmate_ids, role_mapping, mock_mode,
          all_reports, all_defenses, eliminated_players, pc, vote_round,
          round_num, turn, suspect_target, suspect_scores, sorted_suspect,
          votes, random_voters, vote_tally, accused_pid, accused_log,
          victory_msg, game_ended, forced, runtime_error, analysis,
          generation>>

gameState == <<player_ids, imposter_ids, crewmate_ids, role_mapping,
               all_reports, all_defenses, eliminated_players>>

(* ---------------- sequences and sets ---------------- *)
Range(s) == {s[i] : i \in 1..Len(s)}

Min(S) == CHOOSE x \in S : \A y \in S : x <= y

Max(S) == CHOOSE x \in S : \A y \in S : x >= y

EmptyMap == [x \in {} |-> 0]

RECURSIVE SortedSeqDescending(_)
\* faulty order: descending
SortedSeqDescending(S) ==
    IF S = {} THEN <<>> ELSE <<Max(S)>> \o SortedSeqDescending(S \ {Max(S)})

RECURSIVE SortedSeq(_)
\* sorted(S): ascending list of a set of ids
SortedSeq(S) == IF S = {} THEN <<>> ELSE <<Min(S)>> \o SortedSeq(S \ {Min(S)})

\* all orders random.shuffle can leave a list of the ids in
Shuffles(S) == {s \in [1..Cardinality(S) -> S] : Range(s) = S}

(* ---------------- role pools (lines 578-590) ---------------- *)
all_crew_roles == <<"Engineer Kai (Crewmate)",
                    "Communications Officer Lina (Crewmate)",
                    "Navigator Ella (Crewmate)",
                    "Doctor Mark (Crewmate)",
                    "Technician Lucy (Crewmate)">>

all_imposter_roles == <<"Impostor Vic (Disguised as Supply Manager)",
                        "Impostor Zoe (Disguised as Navigator)",
                        "Impostor Jack (Disguised as Doctor)",
                        "Impostor Lily (Disguised as Technician)">>

\* faulty draw: labels drawn with replacement
SampleWithRepeats(pool, k) == [1..k -> Range(pool)]

\* random.sample(pool, k) followed by random.shuffle: any k distinct labels
\* of the pool in any order
SampleShuffle(pool, k) ==
    {s \in [1..k -> Range(pool)] : \A i, j \in 1..k : i # j => s[i] # s[j]}

\* The labels feed only the narration prompts, never a guard of the state
\* machine, so the round-resolution specification follows one draw of them.
ImposterRoleDraws ==
    {s \in SampleShuffle(all_imposter_roles, 2) :
        \A i \in 1..2 : s[i] = all_imposter_roles[i]}

CrewRoleDraws ==
    {s \in SampleShuffle(all_crew_roles, 3) :
        \A i \in 1..3 : s[i] = all_crew_roles[i]}

(* ---------------- __init__ (lines 593-616) ---------------- *)
\* no analysis asked for yet in this round
NoAnalysis == [path |-> "none", scores |-> <<>>]

\* a text: its length after strip(), whether it holds a keyword of the
\* speaker's crew role, whether it holds a keyword forbidden to Impostors
NoText == [len |-> 0, keyword |-> FALSE, forbidden |-> FALSE]

\* no text generation call is being followed
NoCall == [fn |-> "", label |-> "", retry |-> 0, attempts |-> 0,
           status |-> "idle", result |-> NoText]

\* faulty slice: one id too few
ImposterSliceTooShort(ids) == SubSeq(ids, 1, 1)

ImposterSlice(ids) == SubSeq(ids, 1, 2)

CrewmateSlice(ids) == SubSeq(ids, 3, Len(ids))

\* the two enumerate loops that fill role_mapping
RoleMapping(imps, crew, imp_roles, crew_roles) ==
    [pid \in Range(imps) \cup Range(crew) |->
        IF pid \in Range(imps)
        THEN imp_roles[CHOOSE i \in 1..Len(imps) : imps[i] = pid]
        ELSE crew_roles[CHOOSE i \in 1..Len(crew) : crew[i] = pid]]

InitWith(shuffles, imp_draws, crew_draws, modes) ==
    /\ player_ids \in shuffles
    /\ imposter_ids = ImposterSlice(player_ids)
    /\ crewmate_ids = CrewmateSlice(player_ids)
    /\ \E ir \in imp_draws, cr \in crew_draws :
          role_mapping = RoleMapping(ImposterSlice(player_ids),
                                     CrewmateSlice(player_ids), ir, cr)
    /\ mock_mode \in modes
    /\ all_reports = [pid \in Range(player_ids) |-> <<>>]
    /\ all_defenses = EmptyMap
    /\ eliminated_players = {}
    /\ pc = "report"
    /\ vote_round = 1
    /\ round_num = 1
    /\ turn = 1
    /\ suspect_target = 0
    /\ suspect_scores = <<>>
    /\ sorted_suspect = <<>>
    /\ votes = EmptyMap
    /\ random_voters = {}
    /\ vote_tally = EmptyMap
    /\ accused_pid = 0
    /\ accused_log = <<>>
    /\ victory_msg = ""
    /\ game_ended = FALSE
    /\ forced = FALSE
    /\ runtime_error = FALSE
    /\ analysis = NoAnalysis

\* the game of a client that reached the live model (mock_mode False); its
\* analysis falls back to the heuristic of mock mode whenever the call raises
Init ==
    /\ InitWith(Shuffles(Ids), ImposterRoleDraws, CrewRoleDraws, {FALSE})
    /\ generation = NoCall

\* the game of a client in mock mode (no key, or the model unreachable)
InitMock ==
    /\ InitWith(Shuffles(Ids), ImposterRoleDraws, CrewRoleDraws, {TRUE})
    /\ generation = NoCall

\* Games of a client in mock mode that differ in the role labels drawn: every
\* draw of the Impostor labels beside one draw of the Crewmate labels, and
\* every draw of the Crewmate labels beside one draw of the Impostor labels,
\* for the ascending and the descending order of the player ids.
InitRoles ==
    /\ \E side \in {"Impostor", "Crewmate"} :
          InitWith({[i \in Ids |-> i], [i \in Ids |-> TOTAL_PLAYERS + 1 - i]},
                   IF side = "Impostor" THEN SampleShuffle(all_imposter_roles, 2)
                                        ELSE ImposterRoleDraws,
                   IF side = "Crewmate" THEN SampleShuffle(all_crew_roles, 3)
                                        ELSE CrewRoleDraws,
                   {TRUE})
    /\ generation = NoCall

\* Games of both kinds of client, one shuffle for each way of splitting the
\* ids into the two factions (each slice in ascending order).
InitModes ==
    /\ InitWith({s \in Shuffles(Ids) : s[1] < s[2] /\ s[3] < s[4] /\ s[4] < s[5]},
                ImposterRoleDraws, CrewRoleDraws, BOOLEAN)
    /\ generation = NoCall

(* ---------------- get_active_players (lines 632-634) ---------------- *)
\* faulty filter: the eliminated players are kept, the others dropped
ActiveListInverted(ids, elim) == SelectSeq(ids, LAMBDA p : p \in elim)

ActiveList(ids, elim) == SelectSeq(ids, LAMBDA p : p \notin elim)

get_active_players == ActiveList(player_ids, eliminated_players)

ActiveSet == Range(get_active_players)

ActiveImposters == Range(imposter_ids) \ eliminated_players

ActiveCrewmates == Range(crewmate_ids) \ eliminated_players

(* ---------------- run_report_rounds (lines 636-647) ---------------- *)
\* One turn of the inner loop: player.speak(round_num) appends the report to
\* the player's history.  The report text is the token round_num.
Speak ==
    /\ pc = "report"
    /\ LET order == SortedSeq(ActiveSet) IN
         /\ turn <= Len(order)
         /\ all_reports' = [all_reports EXCEPT ![order[turn]] = Append(@, round_num)]
         /\ IF turn < Len(order)
            THEN /\ turn' = turn + 1
                 /\ UNCHANGED <<round_num, pc>>
            ELSE IF round_num < ROUNDS_PER_VOTE
                 THEN /\ turn' = 1
                      /\ round_num' = round_num + 1
                      /\ UNCHANGED pc
                 ELSE /\ turn' = 1
                      /\ round_num' = 1
                      /\ pc' = "defense"
    /\ UNCHANGED <<analysis, generation, player_ids, imposter_ids,
                   crewmate_ids, role_mapping,
                   mock_mode, all_defenses, eliminated_players, vote_round,
                   suspect_target, suspect_scores, sorted_suspect, votes,
                   random_voters, vote_tally, accused_pid, accused_log,
                   victory_msg, game_ended, forced, runtime_error>>

(* ---------------- run_defense_phase (lines 649-684) ---------------- *)
\* faulty candidates: the player is not taken out of the candidates
SuspectChoicesWithSelf(pid, active, coin) ==
    IF pid \in Range(imposter_ids)
    THEN IF active \cap Range(crewmate_ids) # {} /\ coin
         THEN active \cap Range(crewmate_ids) ELSE active
    ELSE IF active \cap Range(imposter_ids) # {} /\ coin
         THEN active \cap Range(imposter_ids) ELSE active

\* the factional bias rule; coin is random.random() < 0.6
SuspectChoices(pid, active, coin) ==
    LET suspect_candidates == active \ {pid} IN
    IF pid \in Range(imposter_ids)
    THEN LET crew_candidates == suspect_candidates \cap Range(crewmate_ids) IN
         IF crew_candidates # {} /\ coin THEN crew_candidates
                                         ELSE suspect_candidates
    ELSE LET imposter_candidates == suspect_candidates \cap Range(imposter_ids) IN
         IF imposter_candidates # {} /\ coin THEN imposter_candidates
                                             ELSE suspect_candidates

\* faulty store: the defense overwrites every stored defense
SetDefenseShared(defenses, pid, defense) ==
    [p \in DOMAIN defenses \cup {pid} |-> defense]

\* line 681: self.all_defenses[pid] = defense
SetDefense(defenses, pid, defense) ==
    [p \in DOMAIN defenses \cup {pid} |->
        IF p = pid THEN defense ELSE defenses[p]]

\* One player's turn: the pre-selected target and player.defend(target).  The
\* draws of the pre-selection loop read nothing the defenses write, so each is
\* taken at the turn that uses it.  The defense text is the token vote_round.
\* random.choice of an empty candidate list raises; run() catches it.
Defend ==
    /\ pc = "defense"
    /\ LET order == SortedSeq(ActiveSet) IN
         /\ turn <= Len(order)
         /\ IF ActiveSet \ {order[turn]} = {}
            THEN /\ pc' = "done"
                 /\ runtime_error' = TRUE
                 /\ UNCHANGED <<all_defenses, suspect_target, turn>>
            ELSE /\ \E coin \in BOOLEAN :
                       \E t \in SuspectChoices(order[turn], ActiveSet, coin) :
                           suspect_target' = t
                 /\ all_defenses' = SetDefense(all_defenses, order[turn], vote_round)
                 /\ turn' = turn + 1
                 /\ UNCHANGED <<pc, runtime_error>>
    /\ UNCHANGED <<analysis, generation, player_ids, imposter_ids,
                   crewmate_ids, role_mapping,
                   mock_mode, all_reports, eliminated_players, vote_round,
                   round_num, suspect_scores, sorted_suspect, votes,
                   random_voters, vote_tally, accused_pid, accused_log,
                   victory_msg, game_ended, forced>>

\* run_defense_phase returns: its locals go out of scope
EndDefenseWhen(loop_done) ==
    /\ pc = "defense"
    /\ loop_done
    /\ pc' = "vote"
    /\ turn' = 1
    /\ suspect_target' = 0
    /\ UNCHANGED <<analysis, generation, player_ids, imposter_ids,
                   crewmate_ids, role_mapping,
                   mock_mode, all_reports, all_defenses, eliminated_players,
                   vote_round, round_num, suspect_scores, sorted_suspect, votes,
                   random_voters, vote_tally, accused_pid, accused_log,
                   victory_msg, game_ended, forced, runtime_error>>

\* faulty loop: the phase may end once the first player has defended
EndDefenseEarly == EndDefenseWhen(turn > 1)

\* line 677: the loop over sorted(active_players) is exhausted
EndDefense == EndDefenseWhen(turn > Len(SortedSeq(ActiveSet)))

(* ---------------- analyze_suspect (lines 194-230, 368-398) ---------------- *)
\* ranges the heuristic leaves an Impostor's and a Crewmate's score in
MockScores(pid) ==
    IF pid \in Range(imposter_ids)
    THEN {s \in ScoreGrid : 25 <= s /\ s <= 65}
    ELSE {s \in ScoreGrid : 25 <= s /\ s <= 70}

\* faulty heuristic: it is handed the reports of all players, not of the
\* active ones
MockAnalysisAllPlayers(active) ==
    {s \in [1..Len(player_ids) -> Ids \X ScoreGrid] :
        \A i \in 1..Len(player_ids) :
            s[i][1] = player_ids[i] /\ s[i][2] \in MockScores(player_ids[i])}

\* _mock_suspect_analysis: one score per key of all_reports, in its key order
MockAnalysis(active) ==
    {s \in [1..Len(active) -> Ids \X ScoreGrid] :
        \A i \in 1..Len(active) :
            s[i][1] = active[i] /\ s[i][2] \in MockScores(active[i])}

\* A parsed answer of the live model (lines 223-227): a mapping with integer
\* keys.  The answers followed are the empty one and those that score one key,
\* a player id or not; lines 698-700 supply the other active ids.
LiveAnalysis ==
    {<<>>} \cup {<<e>> : e \in (Ids \cup {JunkId}) \X ScoreGrid}

\* The path taken and the mapping returned.  Mock mode (the analyzer is
\* unavailable): the heuristic, lines 197-198.  Live mode: the parsed answer,
\* line 227, or the heuristic when the call or the parse raises, lines 228-230.
AnalyzeSuspect(active, mock) ==
    IF mock
    THEN {[path |-> "unavailable", scores |-> s] : s \in MockAnalysis(active)}
    ELSE {[path |-> "answered", scores |-> s] : s \in LiveAnalysis}
         \cup {[path |-> "raised", scores |-> s] : s \in MockAnalysis(active)}

(* ---------------- run_voting_phase (lines 686-795) ---------------- *)
Keys(scores) == {scores[i][1] : i \in 1..Len(scores)}

\* lines 698-700: every active id missing from the mapping gets 0.5
FillMissing(scores, active) ==
    LET missing == SelectSeq(active, LAMBDA p : p \notin Keys(scores)) IN
    scores \o [i \in 1..Len(missing) |-> <<missing[i], DEFAULT_SCORE>>]

RECURSIVE SortDescending(_)
\* sorted(items, key=score, reverse=True): stable, equal scores keep dict order
SortDescending(s) ==
    IF s = <<>> THEN <<>>
    ELSE LET top == Max({s[i][2] : i \in 1..Len(s)})
             k == Min({i \in 1..Len(s) : s[i][2] = top})
         IN <<s[k]>> \o SortDescending(SubSeq(s, 1, k - 1) \o SubSeq(s, k + 1, Len(s)))

Pids(sorted) == [i \in 1..Len(sorted) |-> sorted[i][1]]

\* faulty rule: an Impostor votes as a Crewmate does
RationalTargetsNoTeamVote(voter, sorted, others) ==
    IF sorted[1][1] # voter THEN {sorted[1][1]}
    ELSE IF Len(sorted) > 1 THEN {sorted[2][1]} ELSE others

\* lines 724-739: the vote of a voter that does not take the random branch
RationalTargets(voter, sorted, others) ==
    IF voter \in Range(imposter_ids)
    THEN LET crew_suspects ==
                 SelectSeq(Pids(sorted),
                           LAMBDA p : p \in Range(crewmate_ids) /\ p # voter)
         IN IF crew_suspects # <<>> THEN {crew_suspects[1]}
            ELSE IF Len(sorted) > 1 THEN {sorted[2][1]} ELSE others
    ELSE IF sorted[1][1] # voter THEN {sorted[1][1]}
         ELSE IF Len(sorted) > 1 THEN {sorted[2][1]} ELSE others

\* lines 715-739: what one voter may cast; rnd is random.random() < RANDOM_VOTE_RATE
VoterChoices(voter, active, sorted) ==
    LET other_players == active \ {voter} IN
    IF other_players = {} THEN {[target |-> voter, rnd |-> FALSE]}
    ELSE {[target |-> t, rnd |-> TRUE] : t \in other_players}
         \cup {[target |-> t, rnd |-> FALSE] :
                  t \in RationalTargets(voter, sorted, other_players)}

NumRandom(b) == Cardinality({i \in 1..Len(b) : b[i].rnd})

RECURSIVE Ballots(_, _, _)
\* the ballots of the first k voters of the active list
Ballots(active, sorted, k) ==
    IF k = 0 THEN {<<>>}
    ELSE {b \in {Append(prev, c) : prev \in Ballots(active, sorted, k - 1),
                                   c \in VoterChoices(active[k], Range(active), sorted)} :
             NumRandom(b) <= MaxRandomVotes}

\* faulty count: a voted id is counted once however many votes it got
CountOnce(v) == [t \in {v[p] : p \in DOMAIN v} |-> 1]

\* lines 742-744
CountVotes(v) ==
    [t \in {v[p] : p \in DOMAIN v} |-> Cardinality({p \in DOMAIN v : v[p] = t})]

\* lines 742-746, with the fallback for an empty tally
Tallies(v) ==
    IF DOMAIN v = {} THEN {[t \in {i} |-> 1] : i \in Range(imposter_ids)}
                     ELSE {CountVotes(v)}

\* faulty choice: any player who got a vote may be accused
AccusedAnyVoted(tally, coin, active) == DOMAIN tally

\* lines 772-789; coin is random.random() < 0.6
Accused(tally, coin, active) ==
    LET max_votes == Max({tally[t] : t \in DOMAIN tally})
        accused_candidates == {t \in DOMAIN tally : tally[t] = max_votes}
        imposter_candidates == accused_candidates \cap Range(imposter_ids)
        crew_candidates == accused_candidates \cap Range(crewmate_ids)
    IN IF Cardinality(accused_candidates) > 1
       THEN IF imposter_candidates # {} /\ crew_candidates # {}
            THEN IF coin THEN crew_candidates ELSE imposter_candidates
            ELSE accused_candidates
       ELSE accused_candidates

\* faulty marking: the set is replaced instead of extended
MarkOnly(elim, pid) == {pid}

\* faulty marking: every player is marked along with the accused one
MarkEveryone(elim, pid) == elim \cup {pid} \cup Range(player_ids)

\* line 792
MarkEliminated(elim, pid) == elim \cup {pid}

\* The whole of run_voting_phase.  sorted_suspect[0] of an empty ranking and
\* role_mapping[pid] of a key that is no player id (line 710) raise; run()
\* catches the exception and returns (lines 912-915).
RunVotingPhase ==
    /\ pc = "vote"
    /\ \E answer \in AnalyzeSuspect(get_active_players, mock_mode) :
         LET scores == FillMissing(answer.scores, get_active_players)
             sorted == SortDescending(scores)
         IN
         IF sorted = <<>> \/ ~(Keys(scores) \subseteq DOMAIN role_mapping)
         THEN /\ analysis' = answer
              /\ suspect_scores' = scores
              /\ sorted_suspect' = sorted
              /\ pc' = "done"
              /\ runtime_error' = TRUE
              /\ UNCHANGED <<votes, random_voters, vote_tally, accused_pid,
                             accused_log, eliminated_players>>
         ELSE \E b \in Ballots(get_active_players, sorted, Len(get_active_players)) :
                LET v == [p \in ActiveSet |->
                            b[CHOOSE i \in 1..Len(b) : get_active_players[i] = p].target]
                IN \E tally \in Tallies(v) :
                       \E acc \in UNION {Accused(tally, coin, ActiveSet) :
                                            coin \in BOOLEAN} :
                         /\ analysis' = answer
                         /\ suspect_scores' = scores
                         /\ sorted_suspect' = sorted
                         /\ votes' = v
                         /\ random_voters' =
                               {get_active_players[i] : i \in {j \in 1..Len(b) : b[j].rnd}}
                         /\ vote_tally' = tally
                         /\ accused_pid' = acc
                         /\ accused_log' = Append(accused_log, acc)
                         /\ eliminated_players' = MarkEliminated(eliminated_players, acc)
                         /\ pc' = "check"
                         /\ UNCHANGED runtime_error
    /\ UNCHANGED <<generation, player_ids, imposter_ids, crewmate_ids,
                   role_mapping,
                   mock_mode, all_reports, all_defenses, vote_round, round_num,
                   turn, suspect_target, victory_msg, game_ended, forced>>

(* ---------------- check_victory (lines 797-811) ---------------- *)
MSG_IMPOSTORS == "Impostors Win! Insufficient crewmates left, spaceship taken over by impostors!"

MSG_CREWMATES == "Crewmates Win! All impostors ejected, spaceship safely reached space station!"

MSG_MAJORITY == "Crewmates Win! After two voting rounds, crewmates still in majority, successfully completed mission!"

\* faulty comparison: strict instead of >=
CheckVictoryStrict(imps, crew, elim) ==
    LET active_imposters == Cardinality(Range(imps) \ elim)
        active_crewmates == Cardinality(Range(crew) \ elim)
    IN IF active_imposters > active_crewmates \/ active_crewmates = 0
       THEN <<MSG_IMPOSTORS, TRUE>>
       ELSE IF active_imposters = 0 THEN <<MSG_CREWMATES, TRUE>>
       ELSE <<"", FALSE>>

\* faulty test: parity is not counted as an Impostor win
CheckVictoryNoParity(imps, crew, elim) ==
    LET active_imposters == Cardinality(Range(imps) \ elim)
        active_crewmates == Cardinality(Range(crew) \ elim)
    IN IF active_crewmates = 0
       THEN <<MSG_IMPOSTORS, TRUE>>
       ELSE IF active_imposters = 0 THEN <<MSG_CREWMATES, TRUE>>
       ELSE <<"", FALSE>>

\* faulty check: the Crewmate condition is missing
CheckVictoryNoCrewArm(imps, crew, elim) ==
    LET active_imposters == Cardinality(Range(imps) \ elim)
        active_crewmates == Cardinality(Range(crew) \ elim)
    IN IF active_imposters >= active_crewmates \/ active_crewmates = 0
       THEN <<MSG_IMPOSTORS, TRUE>>
       ELSE <<"", FALSE>>

\* faulty check: the Crewmates win as soon as they outnumber the Impostors
CheckVictoryMajority(imps, crew, elim) ==
    LET active_imposters == Cardinality(Range(imps) \ elim)
        active_crewmates == Cardinality(Range(crew) \ elim)
    IN IF active_imposters >= active_crewmates \/ active_crewmates = 0
       THEN <<MSG_IMPOSTORS, TRUE>>
       ELSE <<MSG_CREWMATES, TRUE>>

check_victory(imps, crew, elim) ==
    LET active_imposters == Cardinality(Range(imps) \ elim)
        active_crewmates == Cardinality(Range(crew) \ elim)
    IN IF active_imposters >= active_crewmates \/ active_crewmates = 0
       THEN <<MSG_IMPOSTORS, TRUE>>
       ELSE IF active_imposters = 0 THEN <<MSG_CREWMATES, TRUE>>
       ELSE <<"", FALSE>>

(* ---------------- run (lines 847-910) ---------------- *)
\* Lines 860-875: the round's announcement and the victory check; the loop
\* breaks, goes to its next iteration or is exhausted.  The locals of the
\* vote phase and of this iteration are dead from here on.
RoundStep(elim_after) ==
    /\ pc = "check"
    /\ LET r == check_victory(imposter_ids, crewmate_ids, eliminated_players) IN
         /\ victory_msg' = r[1]
         /\ game_ended' = r[2]
         /\ IF ~r[2] /\ vote_round < VOTE_ROUNDS
            THEN /\ vote_round' = vote_round + 1
                 /\ pc' = "report"
            ELSE /\ UNCHANGED vote_round
                 /\ pc' = "after_loop"
    /\ suspect_scores' = <<>>
    /\ sorted_suspect' = <<>>
    /\ votes' = EmptyMap
    /\ random_voters' = {}
    /\ vote_tally' = EmptyMap
    /\ accused_pid' = 0
    /\ analysis' = NoAnalysis
    /\ eliminated_players' = elim_after
    /\ UNCHANGED <<generation, player_ids, imposter_ids, crewmate_ids,
                   role_mapping,
                   mock_mode, all_reports, all_defenses,
                   round_num, turn, suspect_target, accused_log, forced,
                   runtime_error>>

\* faulty check: the eliminated set is cleared when the game goes on
RoundResultForgets ==
    RoundStep(IF check_victory(imposter_ids, crewmate_ids, eliminated_players)[2]
              THEN eliminated_players ELSE {})

\* check_victory reads the game state and writes none of it
RoundResult == RoundStep(eliminated_players)

\* faulty forced decision: the majority arm names the Impostors
ForcedMessageSwapped(active_imposters, active_crewmates) ==
    IF active_imposters = 0 THEN MSG_CREWMATES
    ELSE IF active_imposters >= active_crewmates THEN MSG_IMPOSTORS
    ELSE MSG_IMPOSTORS

\* lines 885-890
ForcedMessage(active_imposters, active_crewmates) ==
    IF active_imposters = 0 THEN MSG_CREWMATES
    ELSE IF active_imposters >= active_crewmates THEN MSG_IMPOSTORS
    ELSE MSG_MAJORITY

\* lines 877-910: the forced decision when the loop ended without a winner,
\* then the review
FinalStep(undecided) ==
    /\ pc = "after_loop"
    /\ IF undecided
       THEN /\ victory_msg' = ForcedMessage(Cardinality(ActiveImposters),
                                            Cardinality(ActiveCrewmates))
            /\ forced' = TRUE
       ELSE UNCHANGED <<victory_msg, forced>>
    /\ pc' = "done"
    /\ UNCHANGED <<analysis, generation, player_ids, imposter_ids,
                   crewmate_ids, role_mapping,
                   mock_mode, all_reports, all_defenses, eliminated_players,
                   vote_round, round_num, turn, suspect_target, suspect_scores,
                   sorted_suspect, votes, random_voters, vote_tally, accused_pid,
                   accused_log, game_ended, runtime_error>>

\* faulty ending: the forced decision runs although the loop announced a winner
FinalResultAlwaysForces == FinalStep(TRUE)

\* line 878: if not game_ended
FinalResult == FinalStep(~game_ended)

\* line 900: 'Impostors' if 'Impostors Win' in victory_msg else 'Crewmates'
WinningTeam(msg) == IF msg = MSG_IMPOSTORS THEN "Impostors" ELSE "Crewmates"

\* the winner announced so far (lines 874, 892)
Winner == IF victory_msg = "" THEN "None" ELSE WinningTeam(victory_msg)

(* ------- text generation (lines 112-192, 232-366, 411-564) ------- *)
\* every variable but generation
gameVars == <<player_ids, imposter_ids, crewmate_ids, role_mapping, mock_mode,
              all_reports, all_defenses, eliminated_players, pc, vote_round,
              round_num, turn, suspect_target, suspect_scores, sorted_suspect,
              votes, random_voters, vote_tally, accused_pid, accused_log,
              victory_msg, game_ended, forced, runtime_error, analysis>>

Text(len, keyword, forbidden) ==
    [len |-> len, keyword |-> keyword, forbidden |-> forbidden]

\* faulty loop: one attempt more
RetryOneMore == 3 + 1

\* lines 138, 173: retry = 3
RETRY == 3

\* _mock_speech: the canned reports of a role, by length and keywords; a
\* prompt that names no role gets the default report
MockSpeeches(label) ==
    IF label = all_crew_roles[1]
    THEN {Text(62, TRUE, TRUE), Text(66, TRUE, FALSE), Text(53, FALSE, FALSE),
          Text(68, TRUE, FALSE)}
    ELSE IF label = all_crew_roles[2]
    THEN {Text(84, TRUE, FALSE), Text(70, FALSE, FALSE), Text(64, TRUE, FALSE)}
    ELSE IF label = all_crew_roles[3]
    THEN {Text(61, TRUE, FALSE), Text(62, FALSE, FALSE), Text(69, TRUE, FALSE)}
    ELSE IF label = all_crew_roles[4]
    THEN {Text(65, TRUE, FALSE), Text(56, TRUE, FALSE), Text(66, FALSE, FALSE),
          Text(55, TRUE, FALSE)}
    ELSE IF label = all_crew_roles[5]
    THEN {Text(64, FALSE, FALSE), Text(48, TRUE, FALSE), Text(53, FALSE, FALSE)}
    ELSE IF label = all_imposter_roles[1]
    THEN {Text(n, FALSE, FALSE) : n \in {50, 63, 52, 68}}
    ELSE IF label = all_imposter_roles[2]
    THEN {Text(n, FALSE, FALSE) : n \in {61, 58, 55, 46}}
    ELSE IF label = all_imposter_roles[3]
    THEN {Text(n, FALSE, FALSE) : n \in {50, 51, 55, 48}}
    ELSE IF label = all_imposter_roles[4]
    THEN {Text(n, FALSE, FALSE) : n \in {53, 50, 58, 49}}
    ELSE {Text(44, FALSE, FALSE)}

\* _mock_debate: the canned defenses of a role, by length (the accuser's id
\* has one digit); a prompt that names no role gets the default defense
MockDebates(label) ==
    LET lens ==
          IF label = all_crew_roles[1] THEN {109, 91, 76, 85}
          ELSE IF label = all_crew_roles[2] THEN {101, 99, 89, 91}
          ELSE IF label = all_crew_roles[3] THEN {114, 93, 88, 69}
          ELSE IF label = all_crew_roles[4] THEN {93, 88, 87, 101}
          ELSE IF label = all_crew_roles[5] THEN {99, 91, 79, 60}
          ELSE IF label = all_imposter_roles[1] THEN {117, 118, 99, 87}
          ELSE IF label = all_imposter_roles[2] THEN {90, 89, 80, 65}
          ELSE IF label = all_imposter_roles[3] THEN {85, 102, 92}
          ELSE IF label = all_imposter_roles[4] THEN {83, 92, 97}
          ELSE {100}
    IN {Text(n, FALSE, FALSE) : n \in lens}

MockTexts(fn, label) ==
    IF fn = "speech" THEN MockSpeeches(label) ELSE MockDebates(label)

\* answers of the live model after strip(): empty, one character short of
\* the range, at either end of the range, one character over it
LiveTexts(lo, hi) ==
    {Text(n, k, f) : n \in {0, lo - 1, lo, hi, hi + 1}, k \in BOOLEAN, f \in BOOLEAN}

\* line 150: "Impostor" in system_prompt
IsImposterPrompt(label) == label \in Range(all_imposter_roles)

\* lines 151-154: the first of the nine short names the prompt holds.  An
\* Impostor's prompt names the Crewmate this Impostor imitates (lines 420-448),
\* and that name comes first in the list.
RoleInPrompt(label) ==
    IF label \in {all_crew_roles[1], all_imposter_roles[1]} THEN "Engineer Kai"
    ELSE IF label = all_crew_roles[2] THEN "Communications Officer Lina"
    ELSE IF label \in {all_crew_roles[3], all_imposter_roles[2]} THEN "Navigator Ella"
    ELSE IF label \in {all_crew_roles[4], all_imposter_roles[3]} THEN "Doctor Mark"
    ELSE "Technician Lucy"

\* _filter_speech: the keys of crew_keywords are the full labels
_filter_speech(speech, is_imposter, role) ==
    LET in_range == /\ SPEECH_LENGTH_MIN <= speech.len
                    /\ speech.len <= SPEECH_LENGTH_MAX
    IN IF ~is_imposter /\ role \in Range(all_crew_roles)
       THEN in_range /\ speech.keyword
       ELSE in_range /\ ~speech.forbidden

_filter_debate(debate) ==
    DEBATE_LENGTH_MIN <= debate.len /\ debate.len <= DEBATE_LENGTH_MAX

\* the filter a call applies to the text of an attempt
Accepted(fn, label, text) ==
    IF fn = "speech"
    THEN _filter_speech(text, IsImposterPrompt(label), RoleInPrompt(label))
    ELSE _filter_debate(text)

\* what the body of the try block yields: a text, or an exception of the
\* live model's call
Attempts(fn, label, mock) ==
    IF mock
    THEN {[raised |-> FALSE, text |-> t] : t \in MockTexts(fn, label)}
    ELSE {[raised |-> TRUE, text |-> NoText]}
         \cup {[raised |-> FALSE, text |-> t] :
                  t \in IF fn = "speech"
                        THEN LiveTexts(SPEECH_LENGTH_MIN, SPEECH_LENGTH_MAX)
                        ELSE LiveTexts(DEBATE_LENGTH_MIN, DEBATE_LENGTH_MAX)}

\* generate_speech / generate_debate entered for a player with this label
StartCall(fn, label) ==
    [fn |-> fn, label |-> label, retry |-> RETRY, attempts |-> 0,
     status |-> "loop", result |-> NoText]

\* One iteration of "while retry > 0": the text passes the filter and is
\* returned, or the text is rejected or the call raised and retry drops by 1.
GenerateAttempt ==
    /\ generation.status = "loop"
    /\ generation.retry > 0
    /\ \E a \in Attempts(generation.fn, generation.label, mock_mode) :
         IF ~a.raised /\ Accepted(generation.fn, generation.label, a.text)
         THEN generation' = [generation EXCEPT !.attempts = @ + 1,
                                               !.status = "returned",
                                               !.result = a.text]
         ELSE generation' = [generation EXCEPT !.attempts = @ + 1,
                                               !.retry = @ - 1]
    /\ UNCHANGED gameVars

\* lines 163, 192: the loop is exhausted and a canned text is returned as
\* it is
GenerateFallback ==
    /\ generation.status = "loop"
    /\ generation.retry = 0
    /\ \E t \in MockTexts(generation.fn, generation.label) :
         generation' = [generation EXCEPT !.status = "returned", !.result = t]
    /\ UNCHANGED gameVars

\* a call of either function, for a player of any label, by either client
InitGeneration ==
    /\ InitWith({[i \in Ids |-> i]}, ImposterRoleDraws, CrewRoleDraws, BOOLEAN)
    /\ \E fn \in {"speech", "debate"} :
         \E label \in Range(all_crew_roles) \cup Range(all_imposter_roles) :
            generation = StartCall(fn, label)

NextGeneration ==
    \/ GenerateAttempt
    \/ GenerateFallback

SpecGeneration == InitGeneration /\ [][NextGeneration]_vars

(* ------- _mock_suspect_analysis, the arithmetic (lines 368-398) ------- *)
\* every variable but analysis
analysisFrame == <<player_ids, imposter_ids, crewmate_ids, role_mapping,
                   mock_mode, all_reports, all_defenses, eliminated_players, pc,
                   vote_round, round_num, turn, suspect_target, suspect_scores,
                   sorted_suspect, votes, random_voters, vote_tally, accused_pid,
                   accused_log, victory_msg, game_ended, forced, runtime_error,
                   generation>>

\* values of random.random(), in thousandths: the least and (nearly) the
\* supremum of [0, 1)
RandomDraws == {0, 999}

\* round(x, 2) of a score in millionths, as hundredths
Round2(x) == (x + 5000) \div 10000

\* lines 377-382: 0.35 + r * 0.3, less 0.05 + r2 * 0.05 when concealed
ImposterScore(r, conceal, r2) ==
    Round2(350000 + r * 300 - (IF conceal THEN 50000 + r2 * 50 ELSE 0))

\* lines 384-389: 0.25 + r * 0.35, plus 0.05 + r2 * 0.05 when confused
CrewmateScore(r, confuse, r2) ==
    Round2(250000 + r * 350 + (IF confuse THEN 50000 + r2 * 50 ELSE 0))

\* faulty boost: the cap is left out
BoostUncapped(score) == score + 10

\* line 396: round(min(0.7, score + 0.1), 2)
Boost(score) == Min({70, score + 10})

\* one iteration of the loop over the keys of the reports (lines 375-389)
ScorePlayer ==
    /\ analysis.path \in {"none", "scoring"}
    /\ Len(analysis.scores) < Len(get_active_players)
    /\ LET pid == get_active_players[Len(analysis.scores) + 1] IN
         \E r \in RandomDraws, adjust \in BOOLEAN, r2 \in RandomDraws :
            analysis' =
               [path |-> "scoring",
                scores |-> Append(analysis.scores,
                                  <<pid, IF pid \in Range(imposter_ids)
                                         THEN ImposterScore(r, adjust, r2)
                                         ELSE CrewmateScore(r, adjust, r2)>>)]
    /\ UNCHANGED analysisFrame

\* lines 391-398: with probability 0.2 one Crewmate of the mapping is boosted;
\* the mapping is returned
ScoreBoost ==
    /\ analysis.path = "scoring"
    /\ Len(analysis.scores) = Len(get_active_players)
    /\ LET crew_ids == {i \in 1..Len(analysis.scores) :
                           analysis.scores[i][1] \notin Range(imposter_ids)}
       IN \E lucky \in BOOLEAN :
            IF lucky /\ crew_ids # {}
            THEN \E lucky_crew \in crew_ids :
                   analysis' =
                      [path |-> "scored",
                       scores |-> [analysis.scores EXCEPT ![lucky_crew] =
                                      <<@[1], Boost(@[2])>>]]
            ELSE analysis' = [analysis EXCEPT !.path = "scored"]
    /\ UNCHANGED analysisFrame

\* the heuristic called for the five players of a new game
InitScoring ==
    /\ InitWith({[i \in Ids |-> i]}, ImposterRoleDraws, CrewRoleDraws, {TRUE})
    /\ generation = NoCall

NextScoring ==
    \/ ScorePlayer
    \/ ScoreBoost

SpecScoring == InitScoring /\ [][NextScoring]_vars

Next ==
    \/ Speak
    \/ Defend
    \/ EndDefense
    \/ RunVotingPhase
    \/ RoundResult
    \/ FinalResult

Spec == Init /\ [][Next]_vars

SpecMock == InitMock /\ [][Next]_vars

SpecRoles == InitRoles /\ [][Next]_vars

SpecModes == InitModes /\ [][Next]_vars

(* ======================= properties ======================= *)

\* C1: after role assignment and in every later state, imposter_ids holds
\* exactly 2 ids and crewmate_ids exactly 3, the two are disjoint and their
\* union is the set of player ids {1,..,5}.
C1_FactionSplit ==
    /\ Len(imposter_ids) = 2
    /\ Cardinality(Range(imposter_ids)) = 2
    /\ Len(crewmate_ids) = 3
    /\ Cardinality(Range(crewmate_ids)) = 3
    /\ Range(imposter_ids) \cap Range(crewmate_ids) = {}
    /\ Range(imposter_ids) \cup Range(crewmate_ids) = Ids

\* C1 witness: a game that ran to its end after two eliminations, the split
\* still in place
C1_Witness ==
    /\ pc = "done"
    /\ Cardinality(eliminated_players) = 2
    /\ C1_FactionSplit

\* C2: every call of run_voting_phase that returns has eliminated exactly one
\* player: the eliminated set grew by exactly one id, and that id was active
\* when the call began.
C2_ExactlyOneEliminated ==
    [][(pc = "vote" /\ pc' = "check") =>
          /\ eliminated_players \subseteq eliminated_players'
          /\ Cardinality(eliminated_players') = Cardinality(eliminated_players) + 1
          /\ (eliminated_players' \ eliminated_players) \subseteq ActiveSet]_vars

\* C3: no run ends without a winner: when run() has returned, Impostors or
\* Crewmates have been declared the winner.
C3_EndsWithWinner ==
    pc = "done" => Winner \in {"Impostors", "Crewmates"}

\* C4: the victory check after a vote phase declares Impostors the winner
\* iff activeImpostors >= activeCrewmates or activeCrewmates = 0, declares
\* Crewmates the winner iff activeImpostors = 0, and otherwise reports that
\* the game continues.
C4_VictoryCheck ==
    [][pc = "check" =>
          LET ai == Cardinality(ActiveImposters)
              ac == Cardinality(ActiveCrewmates)
          IN /\ (game_ended' /\ Winner' = "Impostors") <=> (ai >= ac \/ ac = 0)
             /\ (game_ended' /\ Winner' = "Crewmates") <=> (ai = 0)
             /\ (~game_ended' /\ Winner' = "None")
                   <=> (~(ai >= ac \/ ac = 0) /\ ai # 0)]_vars

\* C4 witness: the check after round 2 has declared Crewmates, no Impostor
\* being active
C4_Witness ==
    /\ pc = "after_loop"
    /\ vote_round = 2
    /\ game_ended
    /\ Winner = "Crewmates"
    /\ Cardinality(ActiveImposters) = 0

\* C5: if round 2 ends with 1 active Impostor and 2 active Crewmates, the
\* victory check reporting no winner, the forced decision at the two-round
\* cap declares Crewmates the winner.
C5_ForcedMajority ==
    (/\ pc = "done"
     /\ ~runtime_error
     /\ Len(accused_log) = 2
     /\ ~game_ended
     /\ Cardinality(ActiveImposters) = 1
     /\ Cardinality(ActiveCrewmates) = 2)
    => (forced /\ Winner = "Crewmates")

\* C5 witness: the forced decision ran with 1 Impostor and 2 Crewmates active
C5_Witness ==
    /\ pc = "done"
    /\ forced
    /\ Cardinality(ActiveImposters) = 1
    /\ Cardinality(ActiveCrewmates) = 2
    /\ victory_msg = MSG_MAJORITY

C7_BothImpostorsOut ==
    (/\ Len(accused_log) = 2
     /\ accused_log[1] \in Range(imposter_ids)
     /\ accused_log[2] \in Range(imposter_ids) \ {accused_log[1]}
     /\ pc \in {"after_loop", "done"})
    => /\ game_ended
       /\ victory_msg = MSG_CREWMATES
       /\ Winner = "Crewmates"
       /\ ~forced

\* C7 witness: a finished game in which both Impostors were voted out
C7_Witness ==
    /\ pc = "done"
    /\ Len(accused_log) = 2
    /\ Range(accused_log) = Range(imposter_ids)
    /\ Winner = "Crewmates"

C10_EliminatedOnlyGrows ==
    [][/\ eliminated_players \subseteq eliminated_players'
       /\ Cardinality(eliminated_players') >= Cardinality(eliminated_players)]_vars

\* C10 witness: the second vote added a second id to the set that held the first
C10_Witness ==
    /\ pc = "check"
    /\ vote_round = 2
    /\ Len(accused_log) = 2
    /\ eliminated_players = Range(accused_log)
    /\ Cardinality(eliminated_players) = 2

\* C11: the winner is announced at most once and is final: once a winner is
\* announced the run is past its round loop, no report, defense or vote is
\* added, no player is eliminated, and neither the check nor the forced
\* decision announces again or changes the winner.
C11_WinnerTerminal ==
    [][Winner # "None" =>
          /\ pc \in {"after_loop", "done"}
          /\ pc' \in {"after_loop", "done"}
          /\ victory_msg' = victory_msg
          /\ game_ended' = game_ended
          /\ forced' = forced
          /\ eliminated_players' = eliminated_players
          /\ accused_log' = accused_log
          /\ all_reports' = all_reports
          /\ all_defenses' = all_defenses]_vars

\* C11 witness: the run returned after the check of round 1 announced the
\* Impostors, the forced decision having been passed over
C11_Witness ==
    /\ pc = "done"
    /\ game_ended
    /\ ~forced
    /\ vote_round = 1
    /\ Winner = "Impostors"

\* C12: a game has at most 2 vote rounds, numbered 1 then 2, the vote of
\* round r being the r-th vote of the game, so at most 2 players are ever
\* eliminated; a run in which the vote of round 2 was resolved ends with a
\* winner.
C12_TwoRounds ==
    /\ vote_round \in {1, 2}
    /\ Len(accused_log) \in {vote_round - 1, vote_round}
    /\ Len(accused_log) <= 2
    /\ Cardinality(eliminated_players) <= 2
    /\ (pc = "done" /\ Len(accused_log) = 2)
          => Winner \in {"Impostors", "Crewmates"}

\* C12 witness: the run returned after the vote of round 2, two players out
\* and the winner settled by the forced decision
C12_Witness ==
    /\ pc = "done"
    /\ vote_round = 2
    /\ Len(accused_log) = 2
    /\ Cardinality(eliminated_players) = 2
    /\ forced
    /\ Winner = "Crewmates"

\* the votes a tally holds
RECURSIVE TallyTotal(_)
TallyTotal(tally) ==
    IF DOMAIN tally = {} THEN 0
    ELSE LET t == CHOOSE x \in DOMAIN tally : TRUE
         IN tally[t] + TallyTotal([x \in DOMAIN tally \ {t} |-> tally[x]])

\* C13: in every vote phase the voters are exactly the players active when
\* the phase began, one vote each, none of them eliminated, and the counts of
\* the tally sum to the number of those players.
C13_TallySum ==
    [][(pc = "vote" /\ pc' = "check") =>
          /\ DOMAIN votes' = ActiveSet
          /\ DOMAIN votes' \cap eliminated_players = {}
          /\ TallyTotal(vote_tally') = Cardinality(ActiveSet)]_vars

\* C13 witness: the vote of round 2 was counted, 4 voters and 4 votes in the
\* tally, the player eliminated in round 1 not among the voters
C13_Witness ==
    /\ pc = "check"
    /\ vote_round = 2
    /\ Cardinality(DOMAIN votes) = 4
    /\ accused_log[1] \notin DOMAIN votes
    /\ TallyTotal(vote_tally) = 4

\* C14: an eliminated player takes no further part: no step adds a report or
\* a defense of theirs or names them as a defense target, and no vote phase
\* has them as a voter, as the target of a vote or as the player accused and
\* eliminated.
C14_EliminatedTakeNoPart ==
    [][\A p \in eliminated_players :
          /\ all_reports'[p] = all_reports[p]
          /\ p \in DOMAIN all_defenses' =>
                (p \in DOMAIN all_defenses /\ all_defenses'[p] = all_defenses[p])
          /\ suspect_target' # p
          /\ (pc = "vote" /\ pc' = "check") =>
                /\ p \notin DOMAIN votes'
                /\ \A q \in DOMAIN votes' : votes'[q] # p
                /\ accused_pid' # p]_vars

\* C16: whenever a report, defense or vote phase begins or is under way, at
\* least one player is active: no phase meets an empty active set.
C16_ActiveNeverEmpty ==
    pc \in {"report", "defense", "vote"} =>
        /\ ActiveSet # {}
        /\ Len(get_active_players) >= 1

\* C16 witness: the vote phase of round 2 begins, one player eliminated and
\* four active
C16_Witness ==
    /\ pc = "vote"
    /\ vote_round = 2
    /\ Cardinality(eliminated_players) = 1
    /\ Cardinality(ActiveSet) = 4

\* C17: when the mapping analyze_suspect returned lacks an entry for some
\* active player, every active player is in the ranking, the players that
\* were missing with score 0.5, and the vote phase returns normally having
\* eliminated exactly one active player.
C17_MissingScoreDefaults ==
    [][(/\ pc = "vote"
        /\ pc' # "vote"
        /\ ActiveSet \ Keys(analysis'.scores) # {}) =>
          /\ \A p \in ActiveSet :
                \E i \in 1..Len(sorted_suspect') :
                   /\ sorted_suspect'[i][1] = p
                   /\ p \notin Keys(analysis'.scores)
                         => sorted_suspect'[i][2] = DEFAULT_SCORE
          /\ pc' = "check"
          /\ ~runtime_error'
          /\ Cardinality(eliminated_players' \ eliminated_players) = 1
          /\ (eliminated_players' \ eliminated_players) \subseteq ActiveSet]_vars

\* C15: the role mapping gives each of the 5 player ids exactly one label, no
\* label to two players, every Impostor id a label of the 4-label Impostor
\* pool and every Crewmate id a label of the 5-label Crewmate pool, and no
\* step of the game changes the mapping.
C15_RoleMapping ==
    /\ [](/\ DOMAIN role_mapping = Ids
          /\ \A p, q \in Ids : p # q => role_mapping[p] # role_mapping[q]
          /\ Cardinality(Range(all_imposter_roles)) = 4
          /\ Cardinality(Range(all_crew_roles)) = 5
          /\ \A p \in Range(imposter_ids) :
                role_mapping[p] \in Range(all_imposter_roles)
          /\ \A p \in Range(crewmate_ids) :
                role_mapping[p] \in Range(all_crew_roles))
    /\ [][role_mapping' = role_mapping]_vars

\* C15 witness: a finished game in which the two Impostors hold the last and
\* the third label of their pool, in that order
C15_Witness ==
    /\ pc = "done"
    /\ role_mapping[imposter_ids[1]] = all_imposter_roles[4]
    /\ role_mapping[imposter_ids[2]] = all_imposter_roles[3]
    /\ role_mapping[crewmate_ids[1]] \in Range(all_crew_roles)

\* C20: when the analyzer is unavailable or its call raises, analyze_suspect
\* returns the scores of the local heuristic, one for each active player and
\* for nobody else; the error does not reach the vote phase, which returns
\* normally having eliminated exactly one active player.
C20_AnalyzerFallback ==
    [][(pc = "vote" /\ analysis'.path \in {"unavailable", "raised"}) =>
          /\ Keys(analysis'.scores) = ActiveSet
          /\ Len(analysis'.scores) = Cardinality(ActiveSet)
          /\ \A i \in 1..Len(analysis'.scores) :
                /\ 25 <= analysis'.scores[i][2]
                /\ analysis'.scores[i][2] <= 70
          /\ pc' = "check"
          /\ ~runtime_error'
          /\ Cardinality(eliminated_players' \ eliminated_players) = 1
          /\ (eliminated_players' \ eliminated_players) \subseteq ActiveSet]_vars

\* C20 witness: the live analyzer's call raised in round 2, the heuristic
\* scored the four active players and the vote eliminated a second player
C20_Witness ==
    /\ pc = "check"
    /\ ~mock_mode
    /\ vote_round = 2
    /\ analysis.path = "raised"
    /\ Len(analysis.scores) = 4
    /\ Cardinality(eliminated_players) = 2

\* C18: a call of generate_speech or generate_debate makes at most 3
\* attempts, raised errors and rejected texts both counted; every iteration
\* returns or uses up an attempt, so the call ends; what it returns is a
\* non-empty text, the canned fallback when all 3 attempts failed.
C18_GenerationEnds ==
    /\ [](/\ generation.status \in {"loop", "returned"}
          /\ generation.attempts <= 3
          /\ generation.status = "loop"
                => generation.attempts + generation.retry = 3
          /\ generation.status = "returned" =>
                /\ generation.result.len > 0
                /\ \/ Accepted(generation.fn, generation.label, generation.result)
                   \/ /\ generation.attempts = 3
                      /\ generation.result
                            \in MockTexts(generation.fn, generation.label))
    /\ [][generation.status = "loop" =>
            \/ generation'.status = "returned"
            \/ generation'.retry < generation.retry]_vars

\* C18 witness: a defense call of the live client whose 3 attempts all
\* failed has returned a canned defense
C18_Witness ==
    /\ ~mock_mode
    /\ generation.fn = "debate"
    /\ generation.status = "returned"
    /\ generation.attempts = 3
    /\ generation.retry = 0
    /\ generation.result \in MockDebates(generation.label)

\* C19: every report generate_speech returns is 12 to 22 characters long,
\* the fallback returned after the retries included.
C19_ReportLength ==
    (generation.fn = "speech" /\ generation.status = "returned") =>
        /\ SPEECH_LENGTH_MIN <= generation.result.len
        /\ generation.result.len <= SPEECH_LENGTH_MAX

\* C21: every score of the heuristic lies in [0, 1]; after the concealment,
\* false-suspicion and boost adjustments an Impostor's score is within
\* [0.25, 0.65] and a Crewmate's within [0.25, 0.70].
C21_ScoreRanges ==
    \A i \in 1..Len(analysis.scores) :
       LET pid == analysis.scores[i][1]
           score == analysis.scores[i][2]
       IN /\ 0 <= score /\ score <= 100
          /\ pid \in Range(imposter_ids) => (25 <= score /\ score <= 65)
          /\ pid \in Range(crewmate_ids) => (25 <= score /\ score <= 70)

\* C21 witness: the heuristic returned a mapping in which an Impostor has
\* the least score 0.25 and a boosted Crewmate the greatest score 0.70
C21_Witness ==
    /\ analysis.path = "scored"
    /\ Len(analysis.scores) = TOTAL_PLAYERS
    /\ \E i \in 1..Len(analysis.scores) :
          /\ analysis.scores[i][1] \in Range(imposter_ids)
          /\ analysis.scores[i][2] = 25
    /\ \E i \in 1..Len(analysis.scores) :
          /\ analysis.scores[i][1] \in Range(crewmate_ids)
          /\ analysis.scores[i][2] = 70

\* C23: the phases of a round run in the order report, defense, vote: a
\* defense phase is entered only when every active player has reported in
\* this round, a vote phase only when every active player has also defended
\* in it, and a phase of round r+1 only after the vote of round r eliminated
\* a player and the victory check reported no winner.
C23_PhaseOrder ==
    /\ [](/\ pc \in {"defense", "vote"} =>
                \A p \in ActiveSet : Len(all_reports[p]) = 2 * vote_round
          /\ pc = "vote" =>
                \A p \in ActiveSet :
                   p \in DOMAIN all_defenses /\ all_defenses[p] = vote_round
          /\ (pc \in {"report", "defense", "vote"} /\ vote_round > 1) =>
                /\ Len(accused_log) = vote_round - 1
                /\ Cardinality(eliminated_players) = vote_round - 1
                /\ ~game_ended
                /\ victory_msg = "")
    /\ [][/\ <<pc, pc'>> \in {<<"report", "report">>, <<"report", "defense">>,
                              <<"defense", "defense">>, <<"defense", "vote">>,
                              <<"vote", "check">>, <<"vote", "done">>,
                              <<"check", "report">>, <<"check", "after_loop">>,
                              <<"after_loop", "done">>}
           /\ vote_round' = IF <<pc, pc'>> = <<"check", "report">>
                            THEN vote_round + 1 ELSE vote_round]_vars

\* C23 witness: the vote phase of round 2 begins, every active player having
\* reported and defended in round 2 after the vote of round 1 eliminated a
\* player
C23_Witness ==
    /\ pc = "vote"
    /\ vote_round = 2
    /\ Len(accused_log) = 1
    /\ \A p \in ActiveSet : Len(all_reports[p]) = 4 /\ all_defenses[p] = 2

\* C24: a report phase has 2 sub-rounds; each turn of it appends exactly one
\* report to the history of one active player and to no other, the players
\* of a sub-round taking their turns in ascending id order, so that every
\* active player has exactly 2*r reports when the vote phase of round r
\* begins.
C24_ReportRounds ==
    /\ [](/\ round_num \in {1, 2}
          /\ pc = "vote" =>
                \A p \in ActiveSet : Len(all_reports[p]) = 2 * vote_round)
    /\ [][pc = "report" =>
            \E p \in ActiveSet :
               /\ all_reports' = [all_reports EXCEPT ![p] = Append(@, round_num)]
               /\ Len(all_reports[p]) = 2 * (vote_round - 1) + round_num - 1
               /\ \A q \in ActiveSet \ {p} :
                     Len(all_reports[q]) =
                        Len(all_reports[p]) + (IF q < p THEN 1 ELSE 0)]_vars

\* C24 witness: the last turn of the report phase of round 2 was taken and
\* every active player has 4 reports
C24_Witness ==
    /\ pc = "defense"
    /\ vote_round = 2
    /\ turn = 1
    /\ \A p \in ActiveSet : Len(all_reports[p]) = 4
    /\ \A p \in eliminated_players : Len(all_reports[p]) = 2

\* C25: each turn of a defense phase stores the defense of exactly one active
\* player who has not yet defended in this round, after all smaller active
\* ids and before all larger ones, and the target pre-selected for that
\* player is an active player other than the player; the phase ends only by
\* passing to the vote, every active player having defended.
C25_DefenseTurns ==
    /\ [](pc = "vote" =>
             \A p \in ActiveSet :
                p \in DOMAIN all_defenses /\ all_defenses[p] = vote_round)
    /\ [][pc = "defense" =>
            /\ pc' \in {"defense", "vote"}
            /\ pc' = "vote" => all_defenses' = all_defenses
            /\ pc' = "defense" =>
                 \E p \in ActiveSet :
                    /\ DOMAIN all_defenses' = DOMAIN all_defenses \cup {p}
                    /\ all_defenses'[p] = vote_round
                    /\ \A q \in DOMAIN all_defenses \ {p} :
                          all_defenses'[q] = all_defenses[q]
                    /\ ~(p \in DOMAIN all_defenses /\ all_defenses[p] = vote_round)
                    /\ \A q \in ActiveSet \ {p} :
                          (q < p) <=> (q \in DOMAIN all_defenses
                                        /\ all_defenses[q] = vote_round)
                    /\ suspect_target' \in ActiveSet \ {p}]_vars

\* C25 witness: an Impostor has defended against the target drawn in the
\* unbiased branch of the rule, the other Impostor, who is active
C25_Witness ==
    /\ pc = "defense"
    /\ turn > 1
    /\ SortedSeq(ActiveSet)[turn - 1] \in Range(imposter_ids)
    /\ all_defenses[SortedSeq(ActiveSet)[turn - 1]] = vote_round
    /\ suspect_target \in (ActiveSet \cap Range(imposter_ids))
                             \ {SortedSeq(ActiveSet)[turn - 1]}

\* C26: in every vote phase a Crewmate voter who does not take the random
\* branch votes for the highest-ranked active player of the suspicion
\* ranking, or, being that player, for the second-ranked active player.
C26_CrewmateVote ==
    [][(pc = "vote" /\ pc' = "check") =>
          LET ranking == SelectSeq(Pids(sorted_suspect'),
                                   LAMBDA p : p \in ActiveSet)
          IN \A voter \in (ActiveSet \cap Range(crewmate_ids)) \ random_voters' :
                votes'[voter] = IF ranking[1] # voter THEN ranking[1]
                                                      ELSE ranking[2]]_vars

\* the score the ranking gives an id
ScoreIn(sorted, pid) ==
    sorted[CHOOSE i \in 1..Len(sorted) : sorted[i][1] = pid][2]

\* C27: in every vote phase an Impostor voter who does not take the random
\* branch votes for an active Crewmate whose score no active Crewmate
\* exceeds, the first such in the ranking, so that two Impostors voting
\* non-randomly name the same Crewmate; with no Crewmate active the vote
\* goes to the second-ranked active player.
C27_ImpostorVote ==
    [][(pc = "vote" /\ pc' = "check") =>
          LET ranking == SelectSeq(Pids(sorted_suspect'),
                                   LAMBDA p : p \in ActiveSet)
              crew_ranking == SelectSeq(ranking,
                                        LAMBDA p : p \in Range(crewmate_ids))
              voters == (ActiveSet \cap Range(imposter_ids)) \ random_voters'
          IN /\ \A voter \in voters :
                   IF ActiveCrewmates # {}
                   THEN /\ votes'[voter] = crew_ranking[1]
                        /\ votes'[voter] \in ActiveCrewmates
                        /\ \A c \in ActiveCrewmates :
                              ScoreIn(sorted_suspect', votes'[voter])
                                 >= ScoreIn(sorted_suspect', c)
                   ELSE votes'[voter] = ranking[2]
             /\ \A v1, v2 \in voters : votes'[v1] = votes'[v2]]_vars

\* C27 witness: in round 1 an Impostor tops the ranking, nobody voted at
\* random, and both Impostors voted for the same Crewmate
C27_Witness ==
    /\ pc = "check"
    /\ vote_round = 1
    /\ random_voters = {}
    /\ sorted_suspect[1][1] \in Range(imposter_ids)
    /\ votes[imposter_ids[1]] = votes[imposter_ids[2]]
    /\ votes[imposter_ids[1]] \in Range(crewmate_ids)

\* C28: the player a vote phase eliminates has the maximum count of that
\* phase's tally, so is one of the tied players when several share the
\* maximum; when the tie holds Impostors and Crewmates, the draw decides
\* between the tied Crewmates and the tied Impostors, either being possible.
C28_AccusedHasMaxVotes ==
    [][(pc = "vote" /\ pc' = "check") =>
          LET max_votes == Max({vote_tally'[t] : t \in DOMAIN vote_tally'})
              tied == {t \in DOMAIN vote_tally' : vote_tally'[t] = max_votes}
              tied_imposters == tied \cap Range(imposter_ids)
              tied_crewmates == tied \cap Range(crewmate_ids)
          IN /\ accused_pid' \in tied
             /\ \A t \in DOMAIN vote_tally' :
                   vote_tally'[t] <= vote_tally'[accused_pid']
             /\ eliminated_players' = eliminated_players \cup {accused_pid'}
             /\ (tied_imposters # {} /\ tied_crewmates # {}) =>
                   /\ Accused(vote_tally', TRUE, ActiveSet) = tied_crewmates
                   /\ Accused(vote_tally', FALSE, ActiveSet) = tied_imposters]_vars

\* C28 witness: a tally tied for the maximum between an Impostor and a
\* Crewmate, and the Impostor eliminated
C28_Witness ==
    /\ pc = "check"
    /\ \E i \in Range(imposter_ids), c \in Range(crewmate_ids) :
          /\ {i, c} \subseteq DOMAIN vote_tally
          /\ vote_tally[i] = vote_tally[c]
          /\ \A t \in DOMAIN vote_tally : vote_tally[t] <= vote_tally[i]
          /\ accused_pid = i
          /\ i \in eliminated_players

\* C29: only the vote phase changes the eliminated set; the report and
\* defense phases leave the eliminated set, the faction lists and the role
\* mapping as they are; a turn of the report phase changes the reports of
\* the player whose turn it is and nothing else of the reports and defenses,
\* a turn of the defense phase the defense of the player whose turn it is and
\* nothing else; the vote phase changes no report and no defense.
C29_FrameEffects ==
    [][LET order == SortedSeq(ActiveSet) IN
       /\ pc # "vote" => eliminated_players' = eliminated_players
       /\ pc \in {"report", "defense"} =>
             /\ imposter_ids' = imposter_ids
             /\ crewmate_ids' = crewmate_ids
             /\ role_mapping' = role_mapping
       /\ pc = "report" =>
             /\ all_defenses' = all_defenses
             /\ all_reports'[order[turn]] # all_reports[order[turn]]
             /\ \A q \in Ids \ {order[turn]} : all_reports'[q] = all_reports[q]
       /\ pc = "defense" =>
             /\ all_reports' = all_reports
             /\ IF turn <= Len(order)
                THEN /\ DOMAIN all_defenses' = DOMAIN all_defenses \cup {order[turn]}
                     /\ \A q \in DOMAIN all_defenses \ {order[turn]} :
                           all_defenses'[q] = all_defenses[q]
                ELSE all_defenses' = all_defenses
       /\ pc = "vote" =>
             /\ all_reports' = all_reports
             /\ all_defenses' = all_defenses]_vars

\* C29 witness: in the defense phase of round 2 one player has defended and
\* the defenses of round 1 of another active player and of the eliminated
\* player are still in place
C29_Witness ==
    /\ pc = "defense"
    /\ vote_round = 2
    /\ turn = 2
    /\ all_defenses[SortedSeq(ActiveSet)[1]] = 2
    /\ all_defenses[SortedSeq(ActiveSet)[2]] = 1
    /\ \A p \in eliminated_players : all_defenses[p] = 1

\* C30: the winner of a finished game is fixed by the faction of the player
\* eliminated in round 1: Impostors win iff round 1 eliminated a Crewmate,
\* and the game then ended after round 1; Crewmates win iff round 1
\* eliminated an Impostor, whatever round 2 did.
C30_WinnerFixedByRoundOne ==
    pc = "done" =>
        LET first_out_crew == Len(accused_log) >= 1
                                 /\ accused_log[1] \in Range(crewmate_ids)
            first_out_imposter == Len(accused_log) >= 1
                                     /\ accused_log[1] \in Range(imposter_ids)
        IN /\ (Winner = "Impostors") <=> first_out_crew
           /\ (Winner = "Crewmates") <=> first_out_imposter
           /\ first_out_crew => (Len(accused_log) = 1 /\ vote_round = 1)

C32_HighestRankedEliminated ==
    [][(pc = "vote" /\ pc' = "check" /\ random_voters' = {}) =>
          LET ranking == SelectSeq(Pids(sorted_suspect'),
                                   LAMBDA p : p \in ActiveSet)
          IN /\ accused_pid' = ranking[1]
             /\ eliminated_players' \ eliminated_players = {ranking[1]}
             /\ \A t \in DOMAIN vote_tally' \ {accused_pid'} :
                   vote_tally'[t] < vote_tally'[accused_pid']]_vars

\* C33: in every vote phase no voter votes for themselves and every vote,
\* whichever branch cast it, names a player active in that phase; a vote
\* phase never has a sole active player (the self-vote branch) and never an
\* empty set of votes (the fallback tally).
C33_VotesForOtherActive ==
    [][(pc = "vote" /\ pc' = "check") =>
          /\ Cardinality(ActiveSet) >= 2
          /\ DOMAIN votes' = ActiveSet
          /\ \A voter \in DOMAIN votes' :
                /\ votes'[voter] # voter
                /\ votes'[voter] \in ActiveSet
          /\ vote_tally' = CountVotes(votes')]_vars

\* C34: in every reachable state the two victory conditions exclude each
\* other: the Impostor condition (active Impostors >= active Crewmates, or no
\* active Crewmate) and the Crewmate condition (no active Impostor) never
\* hold together, so check_victory gives what it would give with its two
\* tests in the other order.
C34_VictoryExclusive ==
    LET active_imposters == Cardinality(ActiveImposters)
        active_crewmates == Cardinality(ActiveCrewmates)
        imposter_condition == active_imposters >= active_crewmates
                                 \/ active_crewmates = 0
        crewmate_condition == active_imposters = 0
        crewmates_first == IF crewmate_condition THEN <<MSG_CREWMATES, TRUE>>
                           ELSE IF imposter_condition THEN <<MSG_IMPOSTORS, TRUE>>
                           ELSE <<"", FALSE>>
    IN /\ ~(imposter_condition /\ crewmate_condition)
       /\ check_victory(imposter_ids, crewmate_ids, eliminated_players)
             = crewmates_first

\* C34 witness: check_victory is about to run in a state where the Crewmate
\* condition holds and the Impostor condition does not
C34_Witness ==
    /\ pc = "check"
    /\ Cardinality(ActiveImposters) = 0
    /\ Cardinality(ActiveCrewmates) > 0
    /\ check_victory(imposter_ids, crewmate_ids, eliminated_players)
          = <<MSG_CREWMATES, TRUE>>

\* C35: whenever the forced decision after the round loop has run, exactly 1
\* Impostor and 2 Crewmates are active and the decision took its default
\* arm, the Crewmates' majority win; its arm for no active Impostor and its
\* arm for Impostors not outnumbered are never taken.
C35_ForcedOnlyAtOneTwo ==
    forced =>
        /\ Cardinality(ActiveImposters) = 1
        /\ Cardinality(ActiveCrewmates) = 2
        /\ victory_msg = MSG_MAJORITY
        /\ ForcedMessage(Cardinality(ActiveImposters),
                         Cardinality(ActiveCrewmates)) = MSG_MAJORITY

\* C36: a vote phase whose suspicion mapping, as analyze_suspect returned it,
\* holds the id of an already eliminated player casts no vote for a player
\* who is not active and eliminates exactly one player who was active.
C36_InactiveIdsHarmless ==
    [][(/\ pc = "vote" /\ pc' = "check"
        /\ Keys(analysis'.scores) \cap eliminated_players # {}) =>
          /\ \A voter \in DOMAIN votes' : votes'[voter] \in ActiveSet
          /\ accused_pid' \in ActiveSet
          /\ eliminated_players' = eliminated_players \cup {accused_pid'}
          /\ Cardinality(eliminated_players')
                = Cardinality(eliminated_players) + 1]_vars

====
